---- MODULE Spec2Model ----
(***************************************************************************)
(* Model of standaloneproxy/proxy.go: the StandaloneProxy hook (Pre), the *)
(* rpcClient connection handling (reconnect, request, Close) and the      *)
(* length-prefixed exchange with the refiner.                             *)
(*                                                                         *)
(* Callers are goroutines of the dispatch framework running Pre           *)
(* concurrently on one StandaloneProxy.  rc.conn is read and written       *)
(* without synchronisation outside rc.lock: every access to it is a step   *)
(* of its own, so a read racing with a write sees the old or the new       *)
(* value, as the interleaving has it.                                      *)
(***************************************************************************)
EXTENDS Integers, Sequences, FiniteSets, TLC

\* ---------------------------------------------------------------- bounds
NumCallers == 2
MaxCalls == 3
MaxSocks == 3
MaxCloses == 1
MaxStops == 1

Callers == 1 .. NumCallers
Socks == 1 .. MaxSocks
NoConn == 0
NoCaller == 0

VARIABLES
    network,    \* rc.network: "unix" or "tcp"
    up,         \* a refiner is installed and listens at rc.address
    conn,       \* rc.conn: NoConn (nil) or a socket
    lock,       \* rc.lock: NoCaller (free) or the goroutine holding it
    sock,       \* socket -> "unused" | "open" | "closed" (local descriptor)
    peer,       \* socket -> the refiner's end is alive
    nsock,      \* sockets dialled so far
    wire,       \* socket -> chunks written by the client, not yet consumed
    inbox,      \* socket -> chunks written by the refiner, not yet read
    pc,         \* caller -> position in Pre / request
    callno,     \* caller -> calls started
    req,        \* caller -> request built by buildRequest
    rl,         \* caller -> chunk read as the length prefix
    res,        \* caller -> what the last Pre returned
    h,          \* caller -> bookkeeping of the current call
    ncloses,    \* Close() calls so far
    nstops,     \* times the refiner restarted so far
    fresh,      \* socket of the last broken-pipe reconnect, until a call begins
    given       \* the one Pre invocation under study (SpecPre), or unset

vars == <<network, up, conn, lock, sock, peer, nsock, wire, inbox,
          pc, callno, req, rl, res, h, ncloses, nstops, fresh, given>>

\* ---------------------------------------------------------------- values
NoReq == [method |-> "", param |-> ""]
NoChunk == [c |-> 0, k |-> 0, kind |-> "", req |-> NoReq]
\* what Pre returned: handled, err ("" is nil), slot: what was stored in
\* *response ("" when it was left alone), val: the value the client call
\* returned beside its error ("none" when no client call returned)
NoRes == [kind |-> "none", handled |-> FALSE, err |-> "", slot |-> "", val |-> "none"]
\* no numeric token, no response bytes
NoNum == [neg |-> FALSE, digits |-> <<>>]
NoResp == [rt |-> "", elems |-> <<>>, num |-> NoNum, emsg |-> "", edata |-> ""]
\* rec: the rc.reconnect() calls of this call ("lazy", "epipe"), nw: chunks
\* written, used: sockets written to or read from, exit: where request
\* returned, entry: rc.conn when the call began, after: the socket a
\* broken-pipe reconnect installed just before this call began
\* got: the response bytes request returned, as the interpreters see
\* them, reply: the call (caller, number) they answer
NoHist == [rec |-> <<>>, nw |-> 0, used |-> {}, exit |-> "",
           entry |-> "nil", after |-> NoConn, got |-> NoResp, reply |-> <<0, 0>>]
NoGiven == [name |-> "", args |-> <<>>]

ErrInvalidParams == "invalid params"
ErrUnavailable == "socket connection to refiner is not available"

\* ---------------------------------------------------------------- Pre
\* an argument of Pre: its dynamic type and, for a *BlockNumberOrHash, what
\* it holds ("nil": typed nil pointer, "hash": BlockNumber is nil)
ArgValues ==
    { [t |-> "H256", v |-> ""], [t |-> "Tx", v |-> ""], [t |-> "nil", v |-> ""] }
    \cup { [t |-> "BNH", v |-> b] :
             b \in {"nil", "hash", "earliest", "latest", "pending", "7"} }

MaxArgs == 2

ArgLists == UNION { [1 .. n -> ArgValues] : n \in 0 .. MaxArgs }

MethodNames == {"debug_traceTransaction", "eth_estimateGas", "eth_call"}

Ret(handled, err) == [kind |-> "return", handled |-> handled, err |-> err, req |-> NoReq]
Panic == [kind |-> "panic", handled |-> FALSE, err |-> "", req |-> NoReq]
Call(r) == [kind |-> "call", handled |-> TRUE, err |-> "", req |-> r]

\* json.Marshal of a *common.BN64 that is none of the three tags
MarshalBN64(v) == "0x" \o v

\* faulty variant: the case of common.LatestBlockNumber is missing
BlockParam_NoLatest(number) ==
    CASE number = "earliest" -> "earliest"
      [] number = "pending" -> "pending"
      [] OTHER -> MarshalBN64(number)

\* rpcClient.EstimateGas, lines 197-205: the block parameter of the request
BlockParam(number) ==
    CASE number = "earliest" -> "earliest"
      [] number = "latest" -> "latest"
      [] number = "pending" -> "pending"
      [] OTHER -> MarshalBN64(number)

\* faulty variant: a trace argument of the wrong type is reported as handled
PreCheck_TypeMismatchHandled(name, args) ==
    CASE name = "debug_traceTransaction" ->
           IF Len(args) # 1 THEN Ret(FALSE, ErrInvalidParams)
           ELSE IF args[1].t # "H256" THEN Ret(TRUE, ErrInvalidParams)
           ELSE Call([method |-> name, param |-> "hash"])
      [] name = "eth_estimateGas" ->
           IF Len(args) < 1 THEN Panic
           ELSE IF args[1].t # "Tx" THEN Ret(TRUE, ErrInvalidParams)
           ELSE IF Len(args) < 2 THEN Panic
           ELSE IF args[2].t # "BNH" THEN Ret(TRUE, ErrInvalidParams)
           ELSE LET number == IF args[2].v = "nil" THEN "latest" ELSE args[2].v
                IN  IF number = "hash" THEN Panic
                    ELSE Call([method |-> name, param |-> BlockParam(number)])
      [] OTHER -> Ret(FALSE, "")

\* StandaloneProxy.Pre up to the call of rc.request: the arguments are
\* checked in the order of the code; indexing args beyond its length and
\* dereferencing a nil BlockNumber panic
PreCheck(name, args) ==
    CASE name = "debug_traceTransaction" ->
           IF Len(args) # 1 THEN Ret(FALSE, ErrInvalidParams)
           ELSE IF args[1].t # "H256" THEN Ret(FALSE, ErrInvalidParams)
           ELSE Call([method |-> name, param |-> "hash"])
      [] name = "eth_estimateGas" ->
           IF Len(args) < 1 THEN Panic
           ELSE IF args[1].t # "Tx" THEN Ret(TRUE, ErrInvalidParams)
           ELSE IF Len(args) < 2 THEN Panic
           ELSE IF args[2].t # "BNH" THEN Ret(TRUE, ErrInvalidParams)
           ELSE LET number == IF args[2].v = "nil" THEN "latest" ELSE args[2].v
                IN  IF number = "hash" THEN Panic
                    ELSE Call([method |-> name, param |-> BlockParam(number)])
      [] OTHER -> Ret(FALSE, "")

\* ------------------------------------------------- response interpreters
\* A response body as jsonparser sees it: rt is the type of "result"
\* ("notexist" when the key is missing, "malformed" when Get fails
\* otherwise), elems says for an object (one entry) or an array (one entry
\* per element) whether json.Unmarshal into a CallFrame succeeds, num is a
\* numeric result, emsg / edata are error.message / error.data.
\* a JSON number as jsonparser hands it over: a sign and decimal digits
Num(neg, digits) == [neg |-> neg, digits |-> digits]

MaxInt64 == <<9,2,2,3,3,7,2,0,3,6,8,5,4,7,7,5,8,0,7>>
MinInt64Magnitude == <<9,2,2,3,3,7,2,0,3,6,8,5,4,7,7,5,8,0,8>>
\* 2^256, the first value a Uint256 cannot hold
Uint256Limit ==
    <<1,1,5,7,9,2,0,8,9,2,3,7,3,1,6,1,9,5,4,2,3,5,7,0,9,8,5,0,0,8,6,8,7,9,0,7,8,5,3,
      2,6,9,9,8,4,6,6,5,6,4,0,5,6,4,0,3,9,4,5,7,5,8,4,0,0,7,9,1,3,1,2,9,6,3,9,9,3,6>>

NumValues ==
    { Num(TRUE, <<1>>), Num(FALSE, <<0>>), Num(FALSE, <<5>>), Num(FALSE, <<2,5,5>>),
      Num(FALSE, <<6,7,1,2,7,5,9>>), Num(FALSE, MaxInt64),
      Num(FALSE, MinInt64Magnitude), Num(FALSE, Uint256Limit) }
FieldShapes == {"absent", "empty", "str", "other"}

Resp(rt, elems, num, emsg, edata) ==
    [rt |-> rt, elems |-> elems, num |-> num, emsg |-> emsg, edata |-> edata]

Garbage == Resp("malformed", <<>>, NoNum, "absent", "absent")

\* the longest result array
MaxElems == 2

Responses ==
    { Resp("object", <<TRUE>>, NoNum, "absent", "absent"),
      Resp("object", <<FALSE>>, NoNum, "absent", "absent"),
      Resp("string", <<>>, NoNum, "absent", "absent"),
      Garbage }
    \cup { Resp("array", e, NoNum, "absent", "absent") :
              e \in UNION { [1 .. n -> BOOLEAN] : n \in 0 .. MaxElems } }
    \cup { Resp("number", <<>>, n, m, m) : n \in NumValues, m \in {"absent", "str"} }
    \cup { Resp(rt, <<>>, NoNum, m, d) :
              rt \in {"notexist", "string"}, m \in FieldShapes, d \in FieldShapes }

Out(val, err) == [val |-> val, err |-> err]

\* the elements of a result array that decode, in order
RECURSIVE Decoded(_)
Decoded(elems) ==
    IF elems = <<>> THEN <<>>
    ELSE (IF Head(elems) THEN <<"frame">> ELSE <<>>) \o Decoded(Tail(elems))

\* faulty variant: error.message is reported whatever its JSON type
TraceResult_AnyMessageType(r) ==
    IF r.rt = "malformed" THEN Out("nil", "json: malformed")
    ELSE CASE r.rt = "notexist" ->
                IF r.emsg # "absent"
                THEN Out("nil", "rpc: " \o r.emsg)
                ELSE Out("nil", "internal rpc error")
           [] r.rt = "object" ->
                Out("frame", IF r.elems[1] THEN "" ELSE "json: cannot unmarshal")
           [] r.rt = "array" ->
                IF Len(Decoded(r.elems)) # 1
                THEN Out("nil", "unexpected response")
                ELSE Out("frame", "")
           [] OTHER -> Out("nil", "failed to parse unexpected response")

\* rpcClient.TraceTransaction after rc.request returned res
TraceResult(r) ==
    IF r.rt = "malformed" THEN Out("nil", "json: malformed")
    ELSE CASE r.rt = "notexist" ->
                IF r.emsg \in {"str", "empty"}
                THEN Out("nil", "rpc: " \o r.emsg)
                ELSE Out("nil", "internal rpc error")
           [] r.rt = "object" ->
                Out("frame", IF r.elems[1] THEN "" ELSE "json: cannot unmarshal")
           [] r.rt = "array" ->
                IF Len(Decoded(r.elems)) # 1
                THEN Out("nil", "unexpected response")
                ELSE Out("frame", "")
           [] OTHER -> Out("nil", "failed to parse unexpected response")

\* numerals are sequences of digits, most significant first
RECURSIVE Strip(_)
Strip(d) == IF Len(d) > 1 /\ d[1] = 0 THEN Strip(Tail(d)) ELSE d

RECURSIVE LexLess(_, _)
LexLess(a, b) ==
    IF a = <<>> THEN FALSE
    ELSE IF a[1] # b[1] THEN a[1] < b[1]
    ELSE LexLess(Tail(a), Tail(b))

\* a < b, for numerals without leading zeros
Less(a, b) == Len(a) < Len(b) \/ (Len(a) = Len(b) /\ LexLess(a, b))

\* the decimal numeral d divided by k: quotient digits so far in q, the
\* remainder carried in r
RECURSIVE DivBy(_, _, _, _)
DivBy(d, k, q, r) ==
    IF d = <<>> THEN [q |-> Strip(q), r |-> r]
    ELSE LET cur == r * 10 + d[1]
         IN  DivBy(Tail(d), k, Append(q, cur \div k), cur % k)

\* the numeral in base `base` times k plus a, from the last digit up
RECURSIVE MulAdd(_, _, _, _)
MulAdd(d, base, k, a) ==
    IF d = <<>> THEN (IF a = 0 THEN <<>> ELSE MulAdd(<<>>, base, k, a \div base) \o <<a % base>>)
    ELSE LET cur == d[Len(d)] * k + a
         IN  MulAdd(SubSeq(d, 1, Len(d) - 1), base, k, cur \div base) \o <<cur % base>>

\* decimal numeral -> hexadecimal digits, as %x prints them
RECURSIVE ToHex(_)
ToHex(d) ==
    LET x == DivBy(d, 16, <<0>>, 0)
    IN  IF x.q = <<0>> THEN <<x.r>> ELSE Append(ToHex(x.q), x.r)

\* hexadecimal digits -> decimal numeral
RECURSIVE FromHex(_, _)
FromHex(hx, acc) ==
    IF hx = <<>> THEN Strip(acc)
    ELSE FromHex(Tail(hx), Strip(<<0>> \o MulAdd(acc, 10, 16, hx[1])))

HexChars == <<"0", "1", "2", "3", "4", "5", "6", "7",
              "8", "9", "a", "b", "c", "d", "e", "f">>

RECURSIVE HexText(_)
HexText(hx) == IF hx = <<>> THEN "" ELSE HexChars[hx[1] + 1] \o HexText(Tail(hx))

\* strconv.ParseInt(string(result), 10, 64)
ParseInt(tok) ==
    LET mag == Strip(tok.digits)
        fits == IF tok.neg THEN ~Less(MinInt64Magnitude, mag) ELSE ~Less(MaxInt64, mag)
    IN  [ok |-> fits, neg |-> tok.neg /\ mag # <<0>>, mag |-> mag]

\* fmt.Sprintf("0x%x", val): a negative value prints as 0x-...
Sprintf0x(val) == [neg |-> val.neg, hex |-> ToHex(val.mag)]

\* the number of hexadecimal digits of a Uint256
Uint256HexDigits == 64

\* resp.UnmarshalJSON([]byte(hexStr)): the numeral decoded into a Uint256,
\* shown as the Uint256 prints; "-" is no hexadecimal digit, and more
\* than 64 digits overflow
Uint256FromHex(hexStr) ==
    IF hexStr.neg \/ Len(hexStr.hex) > Uint256HexDigits
    THEN Out("nil", "failed to unmarshal result")
    ELSE Out("0x" \o HexText(ToHex(FromHex(hexStr.hex, <<0>>))), "")

\* parseEstimateGasResponse, lines 224-234
HexResult(tok) ==
    LET val == ParseInt(tok)
    IN  IF ~val.ok THEN Out("nil", "failed to parse result as integer")
        ELSE Uint256FromHex(Sprintf0x(val))

\* faulty variant: error.message is looked at before error.data
EstimateGasError_MessageFirst(r) ==
    IF r.emsg \in {"str", "other"} THEN Out("nil", "engine error: message")
    ELSE IF r.edata \in {"str", "other"} THEN Out("nil", "engine error: data")
    ELSE Out("nil", "engine error: unknown error occurred")

\* handleEstimateGasError
EstimateGasError(r) ==
    IF r.edata \in {"str", "other"} THEN Out("nil", "engine error: data")
    ELSE IF r.emsg \in {"str", "other"} THEN Out("nil", "engine error: message")
    ELSE Out("nil", "engine error: unknown error occurred")

\* parseEstimateGasResponse
EstimateGasResult(r) ==
    IF r.rt = "number" THEN HexResult(r.num) ELSE EstimateGasError(r)

\* faulty variant: the value is stored in *response whenever there is one
Interpret_WritesOnError(method, r) ==
    LET o == IF method = "debug_traceTransaction" THEN TraceResult(r)
             ELSE EstimateGasResult(r)
    IN  [kind |-> "return", handled |-> TRUE, err |-> o.err,
         slot |-> IF o.val # "nil" THEN o.val ELSE "", val |-> o.val]

\* the rest of Pre once rc.request returned the bytes r
Interpret(method, r) ==
    LET o == IF method = "debug_traceTransaction" THEN TraceResult(r)
             ELSE LET g == EstimateGasResult(r)
                  IN  Out(g.val, IF g.err = "" THEN "" ELSE g.err)
    IN  [kind |-> "return", handled |-> TRUE, err |-> o.err,
         slot |-> IF o.err = "" THEN o.val ELSE "", val |-> o.val]

\* ------------------------------------------------------------ connection
\* what rc.reconnect can do now: os.Stat(rc.address) reports "not exist"
\* for an address that is no file (always so for a host:port address), the
\* dial fails when nobody listens, and may fail anyway
ReconnectOutcomes ==
    IF network = "tcp" THEN {"notexist"}
    ELSE IF up THEN (IF nsock < MaxSocks THEN {"ok", "dialfail"} ELSE {"dialfail"})
    ELSE {"notexist"}

\* faulty variant: the dial is made, and its socket stored, before the result of
\* os.Stat is looked at
reconnect_DialsBeforeStat(c, out) ==
    IF out \in {"ok", "notexist"} /\ nsock < MaxSocks
    THEN /\ nsock' = nsock + 1
         /\ conn' = nsock + 1
         /\ sock' = [sock EXCEPT ![nsock + 1] = "open"]
         /\ peer' = [peer EXCEPT ![nsock + 1] = TRUE]
    ELSE UNCHANGED <<nsock, conn, sock, peer>>

\* rc.reconnect by goroutine c with outcome out
reconnect(c, out) ==
    IF out = "ok"
    THEN /\ nsock' = nsock + 1
         /\ conn' = nsock + 1
         /\ sock' = [sock EXCEPT ![nsock + 1] = "open"]
         /\ peer' = [peer EXCEPT ![nsock + 1] = TRUE]
    ELSE UNCHANGED <<nsock, conn, sock, peer>>

\* outcome of a write / a read on socket s
WriteOutcomes(s) ==
    IF sock[s] = "closed" THEN {"closed"}
    ELSE IF ~peer[s] THEN {"epipe"}
    ELSE {"ok", "timeout"}

ReadOutcomes(s) ==
    IF sock[s] = "closed" THEN {"closed"}
    ELSE IF inbox[s] # <<>> THEN {"ok"}
    ELSE IF ~peer[s] THEN {"eof"}
    ELSE {"timeout"}

\* TraceTransaction returns the error of rc.request as it is, EstimateGas
\* wraps it
WrapErr(method, err) ==
    IF method = "eth_estimateGas" THEN "failed to send request: " \o err ELSE err

Failed(c, err) ==
    [kind |-> "return", handled |-> TRUE, err |-> WrapErr(req[c].method, err),
     slot |-> "", val |-> "nil"]

\* faulty variant: no deferred Unlock
Return_KeepsLock(c, r, hist, exit) ==
    /\ pc' = [pc EXCEPT ![c] = "idle"]
    /\ res' = [res EXCEPT ![c] = r]
    /\ h' = [h EXCEPT ![c] = [hist EXCEPT !.exit = exit]]
    /\ req' = [req EXCEPT ![c] = NoReq]
    /\ lock' = lock

\* rc.request returns to Pre, which returns r; the deferred Unlock runs
Return(c, r, hist, exit) ==
    /\ pc' = [pc EXCEPT ![c] = "idle"]
    /\ res' = [res EXCEPT ![c] = r]
    /\ h' = [h EXCEPT ![c] = [hist EXCEPT !.exit = exit]]
    /\ req' = [req EXCEPT ![c] = NoReq]
    /\ lock' = IF lock = c THEN NoCaller ELSE lock

Chunk(c, kind, r) == [c |-> c, k |-> callno[c], kind |-> kind, req |-> r]

\* rc.conn as a call finds it
ConnState == IF conn = NoConn THEN "nil" ELSE sock[conn]

\* calls started so far, over all callers
RECURSIVE SumTo(_, _)
SumTo(f, n) == IF n = 0 THEN 0 ELSE f[n] + SumTo(f, n - 1)
Started == SumTo(callno, NumCallers)

\* --------------------------------------------------------------- actions
\* Pre(ctx, name, _, response, args...) up to rc.request
PreDo(c, r) ==
    /\ pc[c] = "idle"
    /\ Started < MaxCalls
    /\ callno' = [callno EXCEPT ![c] = @ + 1]
    /\ h' = [h EXCEPT ![c] = [NoHist EXCEPT !.entry = ConnState, !.after = fresh]]
    /\ fresh' = NoConn
    /\ req' = [req EXCEPT ![c] = r.req]
    /\ IF r.kind = "call"
       THEN /\ pc' = [pc EXCEPT ![c] = "check"]
            /\ res' = [res EXCEPT ![c] = NoRes]
       ELSE /\ pc' = pc
            /\ res' = [res EXCEPT ![c] =
                         [kind |-> r.kind, handled |-> r.handled,
                          err |-> r.err, slot |-> "", val |-> "none"]]
    /\ UNCHANGED <<network, up, conn, lock, sock, peer, nsock, wire, inbox,
                   rl, ncloses, nstops, given>>

\* the invocations the concurrent callers make: a valid one of each
\* method, one with bad arguments and one of a foreign method
CoreInputs ==
    { [name |-> "debug_traceTransaction", args |-> << [t |-> "H256", v |-> ""] >>],
      [name |-> "eth_estimateGas",
       args |-> << [t |-> "Tx", v |-> ""], [t |-> "BNH", v |-> "nil"] >>],
      [name |-> "debug_traceTransaction", args |-> <<>>],
      [name |-> "eth_call", args |-> <<>>] }

Pre(c) ==
    \E in \in CoreInputs : PreDo(c, PreCheck(in.name, in.args))

\* faulty variant: a closed socket counts as no connection
CheckConn_ClosedIsNil(c) ==
    /\ pc[c] = "check"
    /\ pc' = [pc EXCEPT ![c] = IF conn = NoConn \/ sock[conn] = "closed"
                               THEN "connect" ELSE "lock"]
    /\ UNCHANGED <<network, up, conn, lock, sock, peer, nsock, wire, inbox,
                   callno, req, rl, res, h, ncloses, nstops, fresh, given>>

\* request, line 269: if rc.conn == nil
CheckConn(c) ==
    /\ pc[c] = "check"
    /\ pc' = [pc EXCEPT ![c] = IF conn = NoConn THEN "connect" ELSE "lock"]
    /\ UNCHANGED <<network, up, conn, lock, sock, peer, nsock, wire, inbox,
                   callno, req, rl, res, h, ncloses, nstops, fresh, given>>

\* request, lines 270-272: rc.reconnect() outside the lock
LazyConnect(c) ==
    /\ pc[c] = "connect"
    /\ \E out \in ReconnectOutcomes :
         /\ reconnect(c, out)
         /\ IF out = "ok"
            THEN /\ pc' = [pc EXCEPT ![c] = "lock"]
                 /\ h' = [h EXCEPT ![c].rec = Append(@, "lazy")]
                 /\ UNCHANGED <<res, req, lock>>
            ELSE Return(c, Failed(c, ErrUnavailable), [h[c] EXCEPT !.rec = Append(@, "lazy")],
                        "connect-" \o out)
    /\ UNCHANGED <<network, up, wire, inbox, callno, rl, ncloses, nstops, fresh, given>>

\* request, line 274: rc.lock.Lock()
Lock(c) ==
    /\ pc[c] = "lock"
    /\ lock = NoCaller
    /\ lock' = c
    /\ pc' = [pc EXCEPT ![c] = "deadline"]
    /\ UNCHANGED <<network, up, conn, sock, peer, nsock, wire, inbox,
                   callno, req, rl, res, h, ncloses, nstops, fresh, given>>

\* request, lines 276-279: rc.conn.SetDeadline
SetDeadline(c) ==
    /\ pc[c] = "deadline"
    /\ \E s \in {conn} :
         /\ IF sock[s] = "closed"
            THEN Return(c, Failed(c, "closed"), h[c], "deadline")
            ELSE /\ pc' = [pc EXCEPT ![c] = "wlen"]
                 /\ UNCHANGED <<res, req, h, lock>>
    /\ UNCHANGED <<network, up, conn, sock, peer, nsock, wire, inbox,
                   callno, rl, ncloses, nstops, fresh, given>>

\* request, lines 280-282: binary.Write of the length prefix
WriteLen(c) ==
    /\ pc[c] = "wlen"
    /\ \E s \in {conn} : \E out \in WriteOutcomes(s) :
         /\ CASE out = "ok" ->
                   /\ wire' = [wire EXCEPT ![s] = Append(@, Chunk(c, "len", NoReq))]
                   /\ pc' = [pc EXCEPT ![c] = "wbody"]
                   /\ h' = [h EXCEPT ![c].nw = @ + 1, ![c].used = @ \cup {s}]
                   /\ UNCHANGED <<res, req, lock>>
              [] out = "epipe" ->
                   /\ pc' = [pc EXCEPT ![c] = "redial"]
                   /\ UNCHANGED <<wire, res, req, h, lock>>
              [] OTHER ->
                   /\ Return(c, Failed(c, out), h[c], "wlen-" \o out)
                   /\ UNCHANGED wire
    /\ UNCHANGED <<network, up, conn, sock, peer, nsock, inbox,
                   callno, rl, ncloses, nstops, fresh, given>>

\* request, lines 282-287: the length write failed with EPIPE
EpipeReconnect(c) ==
    /\ pc[c] = "redial"
    /\ \E out \in ReconnectOutcomes :
         /\ reconnect(c, out)
         /\ Return(c, Failed(c, IF out = "ok" THEN "epipe" ELSE ErrUnavailable),
                   [h[c] EXCEPT !.rec = Append(@, "epipe")], "redial-" \o out)
         /\ fresh' = IF out = "ok" THEN nsock + 1 ELSE fresh
    /\ UNCHANGED <<network, up, wire, inbox, callno, rl, ncloses, nstops, given>>

\* request, lines 290-293: rc.conn.Write(req)
WriteBody(c) ==
    /\ pc[c] = "wbody"
    /\ \E s \in {conn} : \E out \in WriteOutcomes(s) :
         /\ IF out = "ok"
            THEN /\ wire' = [wire EXCEPT ![s] = Append(@, Chunk(c, "body", req[c]))]
                 /\ pc' = [pc EXCEPT ![c] = "rlen"]
                 /\ h' = [h EXCEPT ![c].nw = @ + 1, ![c].used = @ \cup {s}]
                 /\ UNCHANGED <<res, req, lock>>
            ELSE /\ Return(c, Failed(c, out), h[c], "wbody-" \o out)
                 /\ UNCHANGED wire
    /\ UNCHANGED <<network, up, conn, sock, peer, nsock, inbox,
                   callno, rl, ncloses, nstops, fresh, given>>

\* faulty variant: a failed read of the length reconnects before it returns
ReadLen_ReconnectsOnError(c) ==
    /\ pc[c] = "rlen"
    /\ \E s \in {conn} : \E out \in ReadOutcomes(s) :
         IF out = "ok"
         THEN /\ rl' = [rl EXCEPT ![c] = Head(inbox[s])]
              /\ inbox' = [inbox EXCEPT ![s] = Tail(@)]
              /\ pc' = [pc EXCEPT ![c] = "rbody"]
              /\ h' = [h EXCEPT ![c].used = @ \cup {s}]
              /\ UNCHANGED <<res, req, lock, nsock, conn, sock, peer>>
         ELSE /\ \E again \in ReconnectOutcomes : reconnect(c, again)
              /\ Return(c, Failed(c, out), [h[c] EXCEPT !.rec = Append(@, "epipe")],
                        "rlen-" \o out)
              /\ UNCHANGED <<rl, inbox>>
    /\ UNCHANGED <<network, up, wire, callno, ncloses, nstops, fresh, given>>

\* request, lines 295-299: binary.Read of the response length
ReadLen(c) ==
    /\ pc[c] = "rlen"
    /\ \E s \in {conn} : \E out \in ReadOutcomes(s) :
         /\ IF out = "ok"
            THEN /\ rl' = [rl EXCEPT ![c] = Head(inbox[s])]
                 /\ inbox' = [inbox EXCEPT ![s] = Tail(@)]
                 /\ pc' = [pc EXCEPT ![c] = "rbody"]
                 /\ h' = [h EXCEPT ![c].used = @ \cup {s}]
                 /\ UNCHANGED <<res, req, lock>>
            ELSE /\ Return(c, Failed(c, out), h[c], "rlen-" \o out)
                 /\ UNCHANGED <<rl, inbox>>
    /\ UNCHANGED <<network, up, conn, sock, peer, nsock, wire,
                   callno, ncloses, nstops, fresh, given>>

\* request, lines 301-303 (io.ReadFull), and the rest of Pre: the
\* interpreter of the method and the write of the response slot
ReadBody(c, responses) ==
    /\ pc[c] = "rbody"
    /\ \E s \in {conn} : \E out \in ReadOutcomes(s) :
         /\ IF out = "ok"
            THEN LET b == Head(inbox[s])
                     aligned == /\ rl[c].kind = "len"
                                /\ b.kind = "body"
                                /\ <<b.c, b.k>> = <<rl[c].c, rl[c].k>>
                 IN  /\ inbox' = [inbox EXCEPT ![s] = Tail(@)]
                     /\ \E r \in (IF aligned THEN responses ELSE {Garbage}) :
                          Return(c, Interpret(req[c].method, r),
                                 [h[c] EXCEPT !.used = @ \cup {s}, !.got = r,
                                              !.reply = <<b.c, b.k>>], "ok")
            ELSE /\ Return(c, Failed(c, out), h[c], "rbody-" \o out)
                 /\ UNCHANGED inbox
    /\ rl' = [rl EXCEPT ![c] = NoChunk]
    /\ UNCHANGED <<network, up, conn, sock, peer, nsock, wire,
                   callno, ncloses, nstops, fresh, given>>

\* rpcClient.Close: reads rc.conn without the lock
Close ==
    /\ ncloses < MaxCloses
    /\ ncloses' = ncloses + 1
    /\ sock' = IF conn = NoConn THEN sock ELSE [sock EXCEPT ![conn] = "closed"]
    /\ UNCHANGED <<network, up, conn, lock, peer, nsock, wire, inbox,
                   pc, callno, req, rl, res, h, nstops, fresh, given>>

\* the refiner reads one frame from a connection and answers it
RefinerServe(s) ==
    /\ sock[s] = "open"
    /\ peer[s]
    /\ Len(wire[s]) >= 2
    /\ LET a == wire[s][1]
           b == wire[s][2]
       IN  /\ a.kind = "len"
           /\ b.kind = "body"
           /\ <<a.c, a.k>> = <<b.c, b.k>>
           /\ inbox' = [inbox EXCEPT ![s] =
                          @ \o << [a EXCEPT !.req = NoReq], [b EXCEPT !.req = NoReq] >>]
    /\ wire' = [wire EXCEPT ![s] = Tail(Tail(@))]
    /\ UNCHANGED <<network, up, conn, lock, sock, peer, nsock,
                   pc, callno, req, rl, res, h, ncloses, nstops, fresh, given>>

\* the refiner restarts: its connections are gone, it listens again
RefinerRestart ==
    /\ up
    /\ nstops < MaxStops
    /\ nstops' = nstops + 1
    /\ peer' = [s \in Socks |-> FALSE]
    /\ UNCHANGED <<network, up, conn, lock, sock, nsock, wire, inbox,
                   pc, callno, req, rl, res, h, ncloses, fresh, given>>

\* ------------------------------------------------------- specifications
\* newRPCClient: no connection, the lock free
InitClient ==
    /\ network \in {"unix", "tcp"}
    /\ up \in BOOLEAN
    /\ conn = NoConn
    /\ lock = NoCaller
    /\ sock = [s \in Socks |-> "unused"]
    /\ peer = [s \in Socks |-> FALSE]
    /\ nsock = 0
    /\ wire = [s \in Socks |-> <<>>]
    /\ inbox = [s \in Socks |-> <<>>]
    /\ pc = [c \in Callers |-> "idle"]
    /\ callno = [c \in Callers |-> 0]
    /\ req = [c \in Callers |-> NoReq]
    /\ rl = [c \in Callers |-> NoChunk]
    /\ res = [c \in Callers |-> NoRes]
    /\ h = [c \in Callers |-> NoHist]
    /\ ncloses = 0
    /\ nstops = 0
    /\ fresh = NoConn

Init ==
    /\ InitClient
    /\ given = NoGiven

\* the replies the refiner gives the concurrent callers: a result and an
\* error, each in the shape both interpreters accept or report
CoreResponses ==
    { Resp("object", <<TRUE>>, NoNum, "absent", "absent"),
      Resp("notexist", <<>>, NoNum, "str", "absent") }

Step(c) ==
    \/ CheckConn(c)
    \/ LazyConnect(c)
    \/ Lock(c)
    \/ SetDeadline(c)
    \/ WriteLen(c)
    \/ EpipeReconnect(c)
    \/ WriteBody(c)
    \/ ReadLen(c)

Environment ==
    \/ Close
    \/ \E s \in Socks : RefinerServe(s)
    \/ RefinerRestart

Next ==
    \/ \E c \in Callers : Pre(c)
    \/ \E c \in Callers : Step(c)
    \/ \E c \in Callers : ReadBody(c, CoreResponses)
    \/ Environment

Spec == Init /\ [][Next]_vars

\* the scheduler runs every goroutine that can take a step: a goroutine
\* for which rc.lock stays free takes it, and every read and write ends by
\* its deadline
Fairness ==
    \A c \in Callers : WF_vars(Step(c) \/ ReadBody(c, CoreResponses))

SpecFair == Init /\ [][Next]_vars /\ Fairness

\* one Pre invocation with the name and the arguments drawn at the start
InitPre ==
    /\ InitClient
    /\ given \in [name : MethodNames, args : ArgLists]

PreGiven ==
    /\ Started = 0
    /\ PreDo(1, PreCheck(given.name, given.args))

NextPre ==
    \/ PreGiven
    \/ Step(1)
    \/ ReadBody(1, Responses)
    \/ Environment

SpecPre == InitPre /\ [][NextPre]_vars

\* ---------------------------------------------------------------- claims
InExchange == {"deadline", "wlen", "redial", "wbody", "rlen", "rbody"}

\* C1: frames are never interleaved on the wire: on every connection each
\* body the refiner receives comes right after the length prefix of the
\* same call, and at most one caller is inside the write+read exchange.
C1_FramesWhole ==
    /\ \A s \in Socks : \A i \in 1 .. Len(wire[s]) :
         wire[s][i].kind = "body" =>
           /\ i > 1
           /\ wire[s][i - 1].kind = "len"
           /\ <<wire[s][i - 1].c, wire[s][i - 1].k>> = <<wire[s][i].c, wire[s][i].k>>
    /\ Cardinality({c \in Callers : pc[c] \in InExchange}) <= 1

\* C2: an rpcClient has at most one open socket to the refiner.
C2_OneOpenSocket ==
    Cardinality({s \in Socks : sock[s] = "open"}) <= 1

\* the exits of request after a write that failed with a broken pipe
EpipeExits == {"redial-ok", "redial-dialfail", "redial-notexist", "wbody-epipe"}

\* C3: a call on an established connection whose write of the length prefix
\* or of the body failed with a broken pipe made exactly one reconnect
\* attempt.
C3_OneReconnectOnEpipe ==
    \A c \in Callers :
       (pc[c] = "idle" /\ h[c].exit \in EpipeExits /\ h[c].entry # "nil") =>
          Len(h[c].rec) = 1

\* C4: a call whose length write failed with a broken pipe and whose
\* reconnect succeeded returns an error and writes nothing; the next call
\* performs its whole exchange on the reconnected socket (or one dialled
\* later), so that a responsive refiner sees its frame whole and answers it.
C4_NextCallOnFreshSocket ==
    \A c \in Callers :
       /\ (pc[c] = "idle" /\ h[c].exit = "redial-ok") =>
             /\ res[c].kind = "return"
             /\ res[c].err # ""
             /\ h[c].nw = 0
       /\ h[c].after # NoConn =>
             /\ Cardinality(h[c].used) <= 1
             /\ \A s \in h[c].used : s >= h[c].after

\* C5: a call that finds no connection and whose address does not exist
\* returns the "not available" error at once: no panic, rc.conn stays nil,
\* nothing is written and the lock is neither taken nor left held.
C5_UnavailableLeavesClientAlone ==
    [][\A c \in Callers :
         (pc[c] = "connect" /\ h'[c].exit = "connect-notexist") =>
            /\ pc'[c] = "idle"
            /\ res'[c] = [kind |-> "return", handled |-> TRUE,
                          err |-> WrapErr(req[c].method, ErrUnavailable),
                          slot |-> "", val |-> "nil"]
            /\ conn = NoConn /\ conn' = NoConn
            /\ nsock' = nsock /\ sock' = sock
            /\ h'[c].nw = 0 /\ wire' = wire /\ inbox' = inbox
            /\ lock # c /\ lock' = lock]_vars

C5_Witness ==
    \E c \in Callers :
       /\ pc[c] = "idle"
       /\ h[c].exit = "connect-notexist"
       /\ res[c].err # ""
       /\ conn = NoConn
       /\ lock = NoCaller

\* C6 as claimed: a call that begins after Close() closed the socket
\* attempts a fresh connect.
C6_ReconnectsAfterClose ==
    \A c \in Callers :
       (pc[c] = "idle" /\ h[c].entry = "closed" /\ h[c].exit # "") =>
          (h[c].rec # <<>> /\ h[c].rec[1] = "lazy")

\* C6 as amended: a call that begins after Close() closed the socket finds
\* rc.conn set and attempts no connect; when the closed socket is still the
\* handle at SetDeadline the call fails there with that error, having
\* written nothing, and the handle stays in place.
C6_ClosedHandleFailsFast ==
    [][\A c \in Callers :
         h[c].entry = "closed" =>
            /\ (pc[c] = "check" /\ pc'[c] # "check") =>
                  /\ pc'[c] = "lock"
                  /\ conn' = conn /\ nsock' = nsock
            /\ (pc[c] = "deadline" /\ pc'[c] # "deadline" /\ sock[conn] = "closed") =>
                  /\ pc'[c] = "idle"
                  /\ res'[c] = Failed(c, "closed")
                  /\ h'[c].exit = "deadline"
                  /\ h'[c].rec = <<>> /\ h'[c].nw = 0
                  /\ conn' = conn /\ nsock' = nsock /\ sock' = sock
                  /\ wire' = wire
                  /\ lock' = NoCaller]_vars

C6_Witness ==
    \E c \in Callers :
       /\ pc[c] = "idle"
       /\ h[c].entry = "closed"
       /\ h[c].exit = "deadline"
       /\ h[c].rec = <<>>
       /\ res[c].err = "closed"

\* the failures of a write or a read other than a broken pipe
TransportErrors == {"timeout", "closed", "eof"}

\* C7: a write or a read that fails with anything but a broken pipe makes
\* request return that transport error: no reconnect attempt, and rc.conn
\* and the sockets stay as they were (not closed, not replaced).
C7_TransportErrorLeavesConnection ==
    [][\A c \in Callers :
         (/\ pc[c] \in {"wlen", "wbody", "rlen", "rbody"}
          /\ pc'[c] = "idle"
          /\ h'[c].exit \notin {"ok", "wbody-epipe"}) =>
            /\ res'[c].kind = "return"
            /\ res'[c].err \in { WrapErr(req[c].method, e) : e \in TransportErrors }
            /\ res'[c].slot = ""
            /\ h'[c].rec = h[c].rec
            /\ conn' = conn /\ nsock' = nsock /\ sock' = sock /\ peer' = peer
            /\ lock' = NoCaller]_vars

C7_Witness ==
    \E c \in Callers :
       /\ pc[c] = "idle"
       /\ h[c].exit = "rlen-timeout"
       /\ res[c].err = "timeout"
       /\ conn # NoConn
       /\ sock[conn] = "open"

\* ------------------------------------------- claims on Pre (SpecPre)
\* the invocation under study was made and returned without any exchange
Invoked == Started = 1

NoExchange ==
    /\ pc[1] = "idle"
    /\ h[1].exit = "" /\ h[1].rec = <<>> /\ h[1].nw = 0
    /\ nsock = 0
    /\ \A s \in Socks : wire[s] = <<>>

Returned(handled, err) ==
    /\ res[1] = [kind |-> "return", handled |-> handled, err |-> err,
                 slot |-> "", val |-> "none"]
    /\ NoExchange

\* C8 as claimed: debug_traceTransaction with an argument list of length
\* other than one is refused as not handled, with one argument that is no
\* hash as handled; both with "invalid params" and without an exchange.
C8_TypeMismatchHandled ==
    (Invoked /\ given.name = "debug_traceTransaction") =>
       /\ Len(given.args) # 1 => Returned(FALSE, ErrInvalidParams)
       /\ (Len(given.args) = 1 /\ given.args[1].t # "H256") =>
             Returned(TRUE, ErrInvalidParams)

\* C8 as amended: both the wrong length and the wrong type are refused as
\* not handled, with "invalid params" and without an exchange.
C8_BadTraceArgsNotHandled ==
    (Invoked /\ given.name = "debug_traceTransaction") =>
       /\ Len(given.args) # 1 => Returned(FALSE, ErrInvalidParams)
       /\ (Len(given.args) = 1 /\ given.args[1].t # "H256") =>
             Returned(FALSE, ErrInvalidParams)

C8_Witness ==
    /\ Invoked
    /\ given.name = "debug_traceTransaction"
    /\ Len(given.args) = 1
    /\ given.args[1].t # "H256"
    /\ res[1].err = ErrInvalidParams
    /\ ~res[1].handled

\* C9: Pre never panics, and eth_estimateGas with fewer than two arguments
\* or with an argument of the wrong type returns "invalid params" without
\* an exchange.
C9_BadGasArgsInvalidParams ==
    Invoked =>
       /\ res[1].kind # "panic"
       /\ (/\ given.name = "eth_estimateGas"
           /\ \/ Len(given.args) < 2
              \/ given.args[1].t # "Tx"
              \/ given.args[2].t # "BNH") =>
             /\ res[1].kind = "return"
             /\ res[1].err = ErrInvalidParams
             /\ NoExchange

BlockTags == {"earliest", "latest", "pending"}

GasWithTag ==
    /\ Invoked
    /\ given.name = "eth_estimateGas"
    /\ Len(given.args) >= 2
    /\ given.args[1].t = "Tx"
    /\ given.args[2].t = "BNH"
    /\ given.args[2].v \in BlockTags \cup {"nil"}

C11_SlotWrittenIffHandledOk ==
    Invoked =>
       /\ (res[1].slot # "") <=>
             (res[1].kind = "return" /\ res[1].handled /\ res[1].err = "")
       /\ given.name \notin {"debug_traceTransaction", "eth_estimateGas"} =>
             Returned(FALSE, "")

C11_Witness ==
    /\ Invoked
    /\ given.name = "debug_traceTransaction"
    /\ h[1].exit = "ok"
    /\ res[1].handled
    /\ res[1].err = ""
    /\ res[1].slot = "frame"

\* C12: every call of TraceTransaction or EstimateGas that returns gives
\* either a value with a nil error or no value with an error, never both
\* and never neither.
C12_ResultXorError ==
    \A c \in Callers :
       res[c].val # "none" => ((res[c].val = "nil") <=> (res[c].err # ""))

\* C13: a trace call whose response holds a result array of zero or of
\* more than one element fails with "unexpected response" and returns no
\* result, whether or not the elements decode.
C13_ArrayNotSingleFails ==
    (/\ Invoked
     /\ given.name = "debug_traceTransaction"
     /\ h[1].got.rt = "array"
     /\ Len(h[1].got.elems) # 1) =>
       /\ res[1].err = "unexpected response"
       /\ res[1].val = "nil"
       /\ res[1].slot = ""

\* C14: a trace call whose response has no result fails with the text of
\* error.message when that is a string, and with "internal rpc error"
\* when it is absent or no string; no result is returned either way.
C14_NoResultIsRpcOrInternalError ==
    (/\ Invoked
     /\ given.name = "debug_traceTransaction"
     /\ h[1].got.rt = "notexist") =>
       /\ res[1].kind = "return"
       /\ res[1].val = "nil"
       /\ res[1].slot = ""
       /\ res[1].err = IF h[1].got.emsg \in {"str", "empty"}
                       THEN "rpc: " \o h[1].got.emsg
                       ELSE "internal rpc error"

C14_Witness ==
    /\ Invoked
    /\ given.name = "debug_traceTransaction"
    /\ h[1].got.rt = "notexist"
    /\ h[1].got.emsg = "other"
    /\ res[1].err = "internal rpc error"

EngineErrors ==
    {"engine error: data", "engine error: message",
     "engine error: unknown error occurred"}

\* C15: a gas estimation whose response has no numeric result fails with
\* error.data when that is not empty, else with error.message when that is
\* not empty, and with the unknown-error text when both are absent; a
\* numeric result is never answered with an engine error, whatever the
\* error field holds.
C15_EngineErrorPrecedence ==
    (/\ Invoked
     /\ given.name = "eth_estimateGas"
     /\ h[1].got.rt # "") =>
       LET r == h[1].got
       IN  IF r.rt = "number"
           THEN res[1].err \notin EngineErrors
           ELSE /\ res[1].val = "nil"
                /\ res[1].slot = ""
                /\ r.edata \in {"str", "other"} =>
                      res[1].err = "engine error: data"
                /\ (r.edata \in {"absent", "empty"} /\ r.emsg \in {"str", "other"}) =>
                      res[1].err = "engine error: message"
                /\ (r.edata = "absent" /\ r.emsg = "absent") =>
                      res[1].err = "engine error: unknown error occurred"

C15_Witness ==
    /\ Invoked
    /\ given.name = "eth_estimateGas"
    /\ h[1].got.rt = "notexist"
    /\ h[1].got.edata = "str"
    /\ h[1].got.emsg = "str"
    /\ res[1].err = "engine error: data"

MalformedNumber == {"failed to parse result as integer", "failed to unmarshal result"}

\* C16: a gas estimation whose result is the decimal integer V returns the
\* Uint256 made from the hexadecimal numeral of V, for every V >= 0 that a
\* Uint256 can hold; a negative V, and one a Uint256 cannot hold, fail with
\* a malformed-number error.
C16_DecimalResultRoundTrips ==
    (/\ Invoked
     /\ given.name = "eth_estimateGas"
     /\ h[1].got.rt = "number") =>
       LET V == Strip(h[1].got.num.digits)
           nonneg == ~h[1].got.num.neg \/ V = <<0>>
       IN  IF nonneg /\ Less(V, Uint256Limit)
           THEN /\ res[1].err = ""
                /\ res[1].val = "0x" \o HexText(ToHex(V))
                /\ res[1].slot = res[1].val
           ELSE /\ res[1].val = "nil"
                /\ res[1].err \in MalformedNumber

C18_ListeningIsFound ==
    \A c \in Callers :
       (pc[c] = "idle" /\ h[c].exit = "connect-notexist") => ~up

\* C19: a call that returns response bytes returns the refiner's reply to
\* the request frame of that same call.
C19_ReplyIsToOwnRequest ==
    \A c \in Callers :
       (pc[c] = "idle" /\ h[c].exit = "ok") => h[c].reply = <<c, callno[c]>>

\* C20: rc.conn is replaced, and its socket closed, only by the goroutine
\* that holds rc.lock; so no socket is closed or swapped by another while
\* a caller is inside its write+read exchange.
C20_HandleTouchedUnderLock ==
    [][(\/ conn' # conn
        \/ \E s \in Socks : sock[s] = "open" /\ sock'[s] = "closed") =>
          (lock # NoCaller /\ pc'[lock] # pc[lock])]_vars
====
